---- MODULE Spec2Model ----
(***************************************************************************)
(* Model of the sentiment pipeline of Financial-Sentiment-Analyst-Agent:   *)
(* SentimentAnalyzer (financial_agent/analyzer.py) and perform_analysis    *)
(* (app.py).                                                               *)
(*                                                                         *)
(* Texts.  A reply of the text-generation service is a sequence of tokens  *)
(* and one object payload.  The tokens are                                 *)
(*   "FJ"  the seven characters ```json        "F"   the three ```         *)
(*   "LB"  the character {                     "RB"  the character }       *)
(*   "W"   one prose character                 "SP"  one whitespace        *)
(*   "NUM" one digit                           "OBJ" a complete, well      *)
(*         formed JSON object text whose members are the reply's payload   *)
(*   "CUT" an "OBJ" whose last character was sliced off                    *)
(* Python strings are modelled as records: a label string is a word, its   *)
(* casing and whether it carries surrounding whitespace; a reasoning       *)
(* string is an identity, a length in characters and the same padding.     *)
(*                                                                         *)
(* Time.  now is the wall clock in whole time units.  Time passes while    *)
(* the caller sleeps in _rate_limit, between the end of _rate_limit and    *)
(* the classify call (the article is read, the prompt built, the title     *)
(* logged), while a service call is in flight and between operations;      *)
(* other local computation takes no time.  The clock never runs backwards  *)
(* and time.sleep never returns early.                                     *)
(***************************************************************************)
EXTENDS Integers, Sequences, FiniteSets, TLC

VARIABLES
    now,                \* time.time()
    last_request_time,  \* SentimentAnalyzer.last_request_time, per instance
    calls,              \* per instance: how many generate_content calls it issued,
                        \* and the start time and kind of the latest two
    pc,                 \* position of the (single) thread of control
    self,               \* the instance whose method is running
    ret,                \* where the running method returns to
    article,            \* analyze_article_sentiment: its argument
    result,             \* analyze_article_sentiment: its last return value
    judgments,          \* generate_final_report: its sentiment_results argument
    company,            \* generate_final_report: its company_name argument
    report,             \* generate_final_report: its last return value
    answer,             \* what generate_content did in the latest call
    batch,              \* perform_analysis: articles, loop index, sentiment_results
    outcome,            \* perform_analysis: its last return value
    reply,              \* pure-function checks: the reply text under test
    parsed,             \* pure-function checks: _parse_sentiment_response(reply)
    tally,              \* pure-function checks: the labels of the judgment list under test
    overall,            \* pure-function checks: _determine_overall_sentiment(tally)
    previous            \* history: the classification the caller's analyzer
                        \* completed before the latest one

vars == <<now, last_request_time, calls, pc, self, ret, article, result,
          judgments, company, report, answer, batch, outcome, reply, parsed, tally,
          overall, previous>>

----------------------------------------------------------------------------
(* Bounds of the model *)

MaxReplyLen == 4        \* tokens in an exhaustively enumerated reply
MaxCount == 7           \* judgments per label in an enumerated tally
MaxTallyLen == 4        \* labels in an exhaustively enumerated label list
MaxJudgments == 3       \* judgments in an enumerated judgment list
MaxPoints == 6          \* points the service puts in one narrative list
MaxLatency == 1         \* time units one generate_content call may take
MaxOversleep == 1       \* time units time.sleep may overshoot
MaxPrep == 1            \* time units from the end of _rate_limit to the classify call
MaxArticles == 2        \* articles the news fetch returns
Horizon == 18           \* the wall clock is followed up to Epoch + Horizon
Epoch == 10             \* the wall clock when the model starts

Min(S) == CHOOSE x \in S : \A y \in S : x <= y
Max(S) == CHOOSE x \in S : \A y \in S : y <= x
SeqsUpTo(S, n) == UNION {[1..k -> S] : k \in 0..n}

----------------------------------------------------------------------------
(* Python values *)

None == [kind |-> "none"]
Missing == [kind |-> "missing"]         \* a key the dict does not have
NonString == [kind |-> "nonstr"]        \* a JSON number, null, list, ...

LabelStr(word, casing, pad) ==
    [kind |-> "str", word |-> word, casing |-> casing, pad |-> pad]
Positive == LabelStr(<<"positive">>, "title", FALSE)
Negative == LabelStr(<<"negative">>, "title", FALSE)
Neutral  == LabelStr(<<"neutral">>, "title", FALSE)
Labels == {Positive, Negative, Neutral}

\* str.strip()
StrStrip(s) == [s EXCEPT !.pad = FALSE]
\* Faulty variant of str.title(): the string as it is
StrTitleAsIs(s) == s

\* str.title(): every word capitalised, the rest of it lower case
StrTitle(s) == [s EXCEPT !.casing = "title"]

TextStr(id, len, pad) == [kind |-> "text", id |-> id, len |-> len, pad |-> pad]

IsStr(v) == v.kind \in {"str", "text"}

----------------------------------------------------------------------------
(* Reply texts: str.strip, in, find, rfind and slicing on token sequences *)

Tokens == {"FJ", "F", "LB", "RB", "W", "SP", "NUM", "OBJ"}

\* The tokens in which a pattern occurs
FenceJson == {"FJ"}             \* ```json
Fence == {"F", "FJ"}            \* ```
OpenBrace == {"LB", "OBJ"}      \* {
CloseBrace == {"RB", "OBJ"}     \* }
OneChar == {"LB", "RB", "W", "SP", "NUM"}

\* pattern in text
Contains(text, pattern) == \E i \in 1..Len(text) : text[i] \in pattern

\* text.strip(): leading and trailing whitespace removed
Strip(text) ==
    LET I == {i \in 1..Len(text) : text[i] # "SP"}
    IN  IF I = {} THEN <<>> ELSE SubSeq(text, Min(I), Max(I))

\* text.find(pattern, start): the first token from `start` on in which the
\* pattern occurs, 0 for Python's -1
Find(text, pattern, start) ==
    LET I == {i \in start..Len(text) : text[i] \in pattern}
    IN  IF I = {} THEN 0 ELSE Min(I)

\* text.rfind(pattern)
RFind(text, pattern) ==
    LET I == {i \in 1..Len(text) : text[i] \in pattern}
    IN  IF I = {} THEN 0 ELSE Max(I)

\* text[start:-1] for `start` the offset right after token `after`: all the
\* rest of the text but its last character
SliceToLastChar(text, after) ==
    LET n == Len(text)
    IN  IF after >= n THEN <<>>
        ELSE IF text[n] \in OneChar THEN SubSeq(text, after + 1, n - 1)
        ELSE SubSeq(text, after + 1, n - 1) \o <<"CUT">>

\* The fence branch: from the end of the first ```json to the next ```; find
\* returns -1 when the fence is never closed, and the slice then ends one
\* character before the end of the text.
FencedText(cleaned_text) ==
    LET json_start == Find(cleaned_text, FenceJson, 1)
        json_end == Find(cleaned_text, Fence, json_start + 1)
    IN  IF json_end # 0
        THEN Strip(SubSeq(cleaned_text, json_start + 1, json_end - 1))
        ELSE Strip(SliceToLastChar(cleaned_text, json_start))

\* Faulty variant of the brace branch: from the first { to the first }
BracedTextFirstClose(cleaned_text) ==
    SubSeq(cleaned_text, Find(cleaned_text, OpenBrace, 1), Find(cleaned_text, CloseBrace, 1))

\* The brace branch: from the first { to the last }
BracedText(cleaned_text) ==
    LET json_start == Find(cleaned_text, OpenBrace, 1)
        json_end == RFind(cleaned_text, CloseBrace)
    IN  SubSeq(cleaned_text, json_start, json_end)

\* Which branch of the if/elif/else is taken
ExtractBranch(cleaned_text) ==
    IF Contains(cleaned_text, FenceJson) THEN "fence"
    ELSE IF Contains(cleaned_text, OpenBrace) /\ Contains(cleaned_text, CloseBrace)
    THEN "brace"
    ELSE "none"

\* json_text of the reply, or None where the code returns None
ExtractJsonText(response_text) ==
    LET cleaned_text == Strip(response_text)
        branch == ExtractBranch(cleaned_text)
    IN  IF branch = "fence"
        THEN [kind |-> "text", text |-> FencedText(cleaned_text)]
        ELSE IF branch = "brace"
        THEN [kind |-> "text", text |-> BracedText(cleaned_text)]
        ELSE None

\* json.loads(json_text): whitespace around one value is allowed; the values
\* the tokens can spell are the payload object, the empty object and a number
JsonLoads(json_text, obj) ==
    LET t == Strip(json_text)
    IN  IF t = <<"OBJ">> THEN [kind |-> "object", members |-> obj]
        ELSE IF /\ Len(t) >= 2
                /\ t[1] = "LB"
                /\ t[Len(t)] = "RB"
                /\ \A i \in 2..(Len(t) - 1) : t[i] = "SP"
        THEN [kind |-> "empty_object"]
        ELSE IF t # <<>> /\ \A i \in 1..Len(t) : t[i] = "NUM"
        THEN [kind |-> "number"]
        ELSE [kind |-> "JSONDecodeError"]

----------------------------------------------------------------------------
(* Classification: _parse_sentiment_response and analyze_article_sentiment *)

Raise(exc) == [kind |-> "raise", exc |-> exc]
Num(tenths) == [kind |-> "num", tenths |-> tenths]
DefaultConfidence == Num(8)
EmptyStr == TextStr("", 0, FALSE)
Unknown == TextStr("Unknown", 7, FALSE)

\* A reply of the service: its text and the members of its "OBJ" tokens
Reply(toks, obj) == [kind |-> "text", toks |-> toks, obj |-> obj]
SentimentObj(s, r, c) == [sentiment |-> s, reasoning |-> r, confidence |-> c]

\* The try block of _parse_sentiment_response: the dict it returns, None, or
\* the exception it raises
ParseSentimentTry(response) ==
    LET json_text == ExtractJsonText(response.toks)
        sentiment_data ==
            IF json_text = None THEN None ELSE JsonLoads(json_text.text, response.obj)
    IN  IF json_text = None THEN None
        ELSE IF sentiment_data.kind = "JSONDecodeError" THEN Raise("JSONDecodeError")
        ELSE IF sentiment_data.kind = "number" THEN Raise("TypeError")
        ELSE IF sentiment_data.kind = "empty_object" THEN None
        ELSE LET d == sentiment_data.members
             IN  IF d.sentiment = Missing \/ d.reasoning = Missing THEN None
                 ELSE IF ~IsStr(d.sentiment) THEN Raise("AttributeError")
                 ELSE LET sentiment == StrTitle(StrStrip(d.sentiment))
                      IN  IF sentiment \notin Labels THEN None
                          ELSE IF ~IsStr(d.reasoning) THEN Raise("AttributeError")
                          ELSE [kind |-> "dict",
                                sentiment |-> sentiment,
                                reasoning |-> StrStrip(d.reasoning),
                                confidence |-> IF d.confidence = Missing
                                               THEN DefaultConfidence
                                               ELSE d.confidence]

\* The except clauses of the method: which exceptions they turn into None
ParseSentimentCatches(exc) == TRUE

ParseSentimentResponse(response) ==
    LET r == ParseSentimentTry(response)
    IN  IF r.kind = "raise" /\ ParseSentimentCatches(r.exc) THEN None ELSE r

\* analyze_article_sentiment up to the service call: title[:50] raises on a
\* title that is None
AnalyzeBeforeCall(a) ==
    IF a.title = None THEN Raise("TypeError") ELSE [kind |-> "ok"]

\* Faulty variant of analyze_article_sentiment: the confidence of the result
\* is the number of calls the analyzer has made
AnalyzeAfterCallCounting(a, response) ==
    LET title == IF a.title = Missing THEN EmptyStr ELSE a.title
        source == IF a.source = Missing THEN Unknown ELSE a.source
        sentiment_data == ParseSentimentResponse(response)
    IN  IF response.kind = "raise" THEN response
        ELSE IF response.toks = <<>> THEN None
        ELSE IF sentiment_data.kind = "raise" THEN sentiment_data
        ELSE IF sentiment_data = None THEN None
        ELSE [kind |-> "result",
              sentiment |-> sentiment_data.sentiment,
              reasoning |-> sentiment_data.reasoning,
              confidence |-> Num(calls[self].n),
              article_title |-> title,
              article_source |-> source]

\* analyze_article_sentiment from the service's answer on; `response` is the
\* reply, or the exception generate_content raised
AnalyzeAfterCall(a, response) ==
    LET title == IF a.title = Missing THEN EmptyStr ELSE a.title
        source == IF a.source = Missing THEN Unknown ELSE a.source
        sentiment_data == ParseSentimentResponse(response)
    IN  IF response.kind = "raise" THEN response
        ELSE IF response.toks = <<>> THEN None
        ELSE IF sentiment_data.kind = "raise" THEN sentiment_data
        ELSE IF sentiment_data = None THEN None
        ELSE [kind |-> "result",
              sentiment |-> sentiment_data.sentiment,
              reasoning |-> sentiment_data.reasoning,
              confidence |-> sentiment_data.confidence,
              article_title |-> title,
              article_source |-> source]

\* Faulty variant of the except clause: it catches nothing
AnalyzeCatchesNothing(exc) == FALSE

\* The except clause of analyze_article_sentiment
AnalyzeCatches(exc) == TRUE

\* What analyze_article_sentiment hands to its caller
AnalyzeReturns(r) ==
    IF r.kind = "raise" /\ AnalyzeCatches(r.exc) THEN None ELSE r

----------------------------------------------------------------------------
(* Report synthesis: generate_final_report and its helpers *)

Threshold == 40         \* _determine_overall_sentiment: max_sentiment[1] < 40
ReasoningCut == 100     \* _create_default_bull_bear_cases: reasoning[:100]
FallbackCap == 5        \* _create_default_bull_bear_cases: bull_case[:5]

\* The k-th smallest element of a finite set of integers
Nth(S, k) == CHOOSE x \in S : Cardinality({y \in S : y < x}) = k - 1

\* Faulty variant of the tally: the three labels, whether they occur or not
CounterWithZeros(items) ==
    LET keys == <<Positive, Negative, Neutral>>
    IN  [k \in 1..3 |->
            [key |-> keys[k],
             count |-> Cardinality({j \in 1..Len(items) : items[j] = keys[k]})]]

\* collections.Counter(items): the counts, keyed in order of first occurrence
Counter(items) ==
    LET firsts == {i \in 1..Len(items) : \A j \in 1..(i - 1) : items[j] # items[i]}
    IN  [k \in 1..Cardinality(firsts) |->
            [key |-> items[Nth(firsts, k)],
             count |-> Cardinality({j \in 1..Len(items) :
                                        items[j] = items[Nth(firsts, k)]})]]

\* Faulty variant of the percentage: the fraction count / total_articles
PercentageFraction(count, total_articles) == [num |-> count, den |-> total_articles]

\* (count / total_articles) * 100, kept as the exact ratio num / den; for
\* totals up to 2000 the float comparisons of the code agree with the exact ones
Percentage(count, total_articles) == [num |-> count * 100, den |-> total_articles]
PctLess(p, q) == p.num * q.den < q.num * p.den
PctBelow(p, n) == p.num < n * p.den

SentimentPercentages(sentiment_counts, total_articles) ==
    [k \in 1..Len(sentiment_counts) |->
        [key |-> sentiment_counts[k].key,
         pct |-> Percentage(sentiment_counts[k].count, total_articles)]]

\* Faulty variant of max: the last item, in iteration order, that no item exceeds
MaxItemLast(sentiment_percentages) ==
    LET n == Len(sentiment_percentages)
        best == {i \in 1..n : \A j \in 1..n :
                    ~PctLess(sentiment_percentages[i].pct, sentiment_percentages[j].pct)}
    IN  sentiment_percentages[Max(best)]

\* max(items, key=...): the first item, in iteration order, that no item exceeds
MaxItem(sentiment_percentages) ==
    LET n == Len(sentiment_percentages)
        best == {i \in 1..n : \A j \in 1..n :
                    ~PctLess(sentiment_percentages[i].pct, sentiment_percentages[j].pct)}
    IN  sentiment_percentages[Min(best)]

\* Faulty variant of the override: a top percentage of exactly 40 is overridden too
DetermineOverallSentimentInclusive(sentiment_percentages) ==
    LET max_sentiment == MaxItem(sentiment_percentages)
    IN  IF ~PctBelow(max_sentiment.pct, Threshold)
           /\ max_sentiment.pct.num # Threshold * max_sentiment.pct.den
        THEN max_sentiment.key
        ELSE Neutral

DetermineOverallSentiment(sentiment_percentages) ==
    LET max_sentiment == MaxItem(sentiment_percentages)
    IN  IF PctBelow(max_sentiment.pct, Threshold) THEN Neutral ELSE max_sentiment.key

\* Points of a bull or bear list
Placeholder(which) == [kind |-> "placeholder", which |-> which]
ServicePoint(n) == [kind |-> "svc", n |-> n]
\* Faulty variant of the fallback entry: the whole reasoning
FallbackPointWhole(reasoning) ==
    [kind |-> "fallback", prefix |-> "bullet", body |-> reasoning, suffix |-> "..."]

\* f"• {result.reasoning[:100]}...": the bullet, the first 100 characters of
\* the reasoning, three dots
FallbackPoint(reasoning) ==
    [kind |-> "fallback",
     prefix |-> "bullet",
     body |-> [reasoning EXCEPT !.len = IF @ > ReasoningCut THEN ReasoningCut ELSE @],
     suffix |-> "..."]

Take(list, n) == SubSeq(list, 1, IF Len(list) < n THEN Len(list) ELSE n)

RECURSIVE SelectSeq2(_, _)
\* [x for x in list if x.sentiment == label]
SelectSeq2(list, label) ==
    IF list = <<>> THEN <<>>
    ELSE IF list[1].sentiment = label
         THEN <<list[1]>> \o SelectSeq2(Tail(list), label)
         ELSE SelectSeq2(Tail(list), label)

\* Faulty variant of the fallback: the lists are not cut to five entries
CreateDefaultBullBearCasesUncapped(sentiment_results) ==
    LET pos == SelectSeq2(sentiment_results, Positive)
        neg == SelectSeq2(sentiment_results, Negative)
        bull_case == [i \in 1..Len(pos) |-> FallbackPoint(pos[i].reasoning)]
        bear_case == [i \in 1..Len(neg) |-> FallbackPoint(neg[i].reasoning)]
    IN  IF \E i \in 1..Len(sentiment_results) :
              /\ sentiment_results[i].sentiment \in {Positive, Negative}
              /\ ~IsStr(sentiment_results[i].reasoning)
        THEN Raise("TypeError")
        ELSE [kind |-> "cases",
              bull_case |-> IF bull_case = <<>>
                            THEN <<Placeholder("bull_default")>> ELSE bull_case,
              bear_case |-> IF bear_case = <<>>
                            THEN <<Placeholder("bear_default")>> ELSE bear_case,
              from |-> "fallback"]

\* _create_default_bull_bear_cases: the pair of lists, or the TypeError of
\* slicing a reasoning that is no string
CreateDefaultBullBearCases(sentiment_results) ==
    LET pos == SelectSeq2(sentiment_results, Positive)
        neg == SelectSeq2(sentiment_results, Negative)
        bull_case == [i \in 1..Len(pos) |-> FallbackPoint(pos[i].reasoning)]
        bear_case == [i \in 1..Len(neg) |-> FallbackPoint(neg[i].reasoning)]
    IN  IF \E i \in 1..Len(sentiment_results) :
              /\ sentiment_results[i].sentiment \in {Positive, Negative}
              /\ ~IsStr(sentiment_results[i].reasoning)
        THEN Raise("TypeError")
        ELSE [kind |-> "cases",
              bull_case |-> Take(IF bull_case = <<>>
                                 THEN <<Placeholder("bull_default")>>
                                 ELSE bull_case, FallbackCap),
              bear_case |-> Take(IF bear_case = <<>>
                                 THEN <<Placeholder("bear_default")>>
                                 ELSE bear_case, FallbackCap),
              from |-> "fallback"]

\* A JSON array
PyList(items) == [kind |-> "list", items |-> items]
NarrativeObj(bull, bear) == [bull_case |-> bull, bear_case |-> bear]

\* _parse_bull_bear_response: json.loads of the extracted text, None when no
\* text is found or the decoder raises
ParseBullBearResponse(response) ==
    LET json_text == ExtractJsonText(response.toks)
        data == IF json_text = None THEN None
                ELSE JsonLoads(json_text.text, response.obj)
    IN  IF data.kind = "JSONDecodeError" THEN None ELSE data

\* bool(value) of a decoded value
Truthy(data) == data.kind \in {"object", "number"}

\* Faulty variant of the try block: the lists of the service are cut to five
\* entries and an empty one is replaced by the placeholder
BullBearTryNormalised(sentiment_results, response) ==
    LET bull_bear_data == ParseBullBearResponse(response)
    IN  IF response.kind = "raise" THEN response
        ELSE IF response.toks = <<>>
        THEN CreateDefaultBullBearCases(sentiment_results)
        ELSE IF ~Truthy(bull_bear_data)
        THEN CreateDefaultBullBearCases(sentiment_results)
        ELSE IF bull_bear_data.kind = "number" THEN Raise("TypeError")
        ELSE IF \/ bull_bear_data.members.bull_case = Missing
                \/ bull_bear_data.members.bear_case = Missing
        THEN Raise("KeyError")
        ELSE [kind |-> "cases",
              bull_case |-> Take(IF bull_bear_data.members.bull_case.items = <<>>
                                 THEN <<Placeholder("bull_default")>>
                                 ELSE bull_bear_data.members.bull_case.items, FallbackCap),
              bear_case |-> Take(IF bull_bear_data.members.bear_case.items = <<>>
                                 THEN <<Placeholder("bear_default")>>
                                 ELSE bull_bear_data.members.bear_case.items, FallbackCap),
              from |-> "service"]

\* The try block of _generate_bull_bear_cases from the service's answer on
BullBearTry(sentiment_results, response) ==
    LET bull_bear_data == ParseBullBearResponse(response)
    IN  IF response.kind = "raise" THEN response
        ELSE IF response.toks = <<>>
        THEN CreateDefaultBullBearCases(sentiment_results)
        ELSE IF ~Truthy(bull_bear_data)
        THEN CreateDefaultBullBearCases(sentiment_results)
        ELSE IF bull_bear_data.kind = "number" THEN Raise("TypeError")
        ELSE IF \/ bull_bear_data.members.bull_case = Missing
                \/ bull_bear_data.members.bear_case = Missing
        THEN Raise("KeyError")
        ELSE [kind |-> "cases",
              bull_case |-> bull_bear_data.members.bull_case.items,
              bear_case |-> bull_bear_data.members.bear_case.items,
              from |-> "service"]

\* Faulty variant of the except clause: the list the reply does hold is kept
\* and only the missing one is replaced
GenerateBullBearCasesPartial(sentiment_results, response) ==
    LET r == BullBearTry(sentiment_results, response)
        d == CreateDefaultBullBearCases(sentiment_results)
        o == response.obj
    IN  IF r.kind # "raise" THEN r
        ELSE IF r.exc # "KeyError" \/ d.kind = "raise" THEN d
        ELSE [kind |-> "cases",
              bull_case |-> IF o.bull_case = Missing THEN d.bull_case ELSE o.bull_case.items,
              bear_case |-> IF o.bear_case = Missing THEN d.bear_case ELSE o.bear_case.items,
              from |-> "mixed"]

\* _generate_bull_bear_cases: its except clause answers any exception of the
\* try block with the default lists
GenerateBullBearCases(sentiment_results, response) ==
    LET r == BullBearTry(sentiment_results, response)
    IN  IF r.kind = "raise" THEN CreateDefaultBullBearCases(sentiment_results) ELSE r

\* Faulty variant of the empty report: Neutral at 0 per cent
CreateEmptyReportZeroPct(company_name) ==
    [kind |-> "report",
     overall_sentiment |-> Neutral,
     sentiment_breakdown |-> <<[key |-> Neutral, count |-> 0]>>,
     sentiment_percentages |-> <<[key |-> Neutral, pct |-> Percentage(0, 1)]>>,
     bull_case |-> <<Placeholder("no_news")>>,
     bear_case |-> <<Placeholder("no_news")>>,
     total_articles |-> 0,
     analyzed_articles |-> 0]

CreateEmptyReport(company_name) ==
    [kind |-> "report",
     overall_sentiment |-> Neutral,
     sentiment_breakdown |-> <<[key |-> Neutral, count |-> 0]>>,
     sentiment_percentages |-> <<[key |-> Neutral, pct |-> Percentage(1, 1)]>>,
     bull_case |-> <<Placeholder("no_news")>>,
     bear_case |-> <<Placeholder("no_news")>>,
     total_articles |-> 0,
     analyzed_articles |-> 0]

\* A list item that is no SentimentResult: result.sentiment raises on it
IsResult(x) == x.kind = "result"

\* The try block of generate_final_report for a list that is not empty, from
\* the narrative service's answer on
FinalReportTry(sentiment_results, company_name, response) ==
    LET sentiments == [i \in 1..Len(sentiment_results) |-> sentiment_results[i].sentiment]
        sentiment_counts == Counter(sentiments)
        total_articles == Len(sentiment_results)
        sentiment_percentages == SentimentPercentages(sentiment_counts, total_articles)
        cases == GenerateBullBearCases(sentiment_results, response)
    IN  IF cases.kind = "raise" THEN cases
        ELSE [kind |-> "report",
              overall_sentiment |-> DetermineOverallSentiment(sentiment_percentages),
              sentiment_breakdown |-> sentiment_counts,
              sentiment_percentages |-> sentiment_percentages,
              bull_case |-> cases.bull_case,
              bear_case |-> cases.bear_case,
              total_articles |-> total_articles,
              analyzed_articles |-> Len(sentiment_results)]

\* generate_final_report before its narrative call: the empty report for an
\* empty list, the AttributeError of an item that is no SentimentResult, or
\* "call" when the narrative call is reached
FinalReportBeforeCall(sentiment_results, company_name) ==
    IF sentiment_results = <<>> THEN CreateEmptyReport(company_name)
    ELSE IF \E i \in 1..Len(sentiment_results) : ~IsResult(sentiment_results[i])
    THEN Raise("AttributeError")
    ELSE [kind |-> "call"]

\* Faulty variant of the except clause: the exception goes on to the caller
FinalReportReturnsUncaught(r, company_name) == r

\* The except clause of generate_final_report
FinalReportReturns(r, company_name) ==
    IF r.kind = "raise" THEN CreateEmptyReport(company_name) ELSE r

----------------------------------------------------------------------------
(* The rate limiter *)

MinRequestInterval == 5     \* self.min_request_interval = 5.0
Instances == {1, 2}         \* 1: the caller's own analyzer; 2: perform_analysis's,
                            \* or a second analyzer of the caller
MaxTime == Epoch + Horizon

\* Faulty variant of _rate_limit: it sleeps one time unit less
SleepTimeShort(current_time, last) ==
    LET time_since_last == current_time - last
    IN  IF time_since_last < MinRequestInterval - 1
        THEN MinRequestInterval - 1 - time_since_last
        ELSE 0

\* _rate_limit: the time it sleeps when it reads current_time
SleepTime(current_time, last) ==
    LET time_since_last == current_time - last
    IN  IF time_since_last < MinRequestInterval
        THEN MinRequestInterval - time_since_last
        ELSE 0

\* The values of time.time() at the end of _rate_limit: time.sleep suspends
\* for at least the time asked
WakeTimes(current_time, last) ==
    LET sleep_time == SleepTime(current_time, last)
    IN  IF sleep_time > 0
        THEN (current_time + sleep_time)..(current_time + sleep_time + MaxOversleep)
        ELSE {current_time}

\* Faulty variant of _rate_limit: last_request_time is shared by the instances
RateLimitShared(i, t) ==
    /\ t \in WakeTimes(now, last_request_time[i])
    /\ last_request_time' = [j \in Instances |-> t]

\* _rate_limit on instance i, ending at time t
RateLimit(i, t) ==
    /\ t \in WakeTimes(now, last_request_time[i])
    /\ last_request_time' = [last_request_time EXCEPT ![i] = t]

\* self.model.generate_content(prompt) is entered at time t
NoCalls == [n |-> 0, recent |-> <<>>]
LastTwo(s) == IF Len(s) <= 2 THEN s ELSE SubSeq(s, Len(s) - 1, Len(s))
IssueCall(i, t, kind) ==
    calls' = [calls EXCEPT ![i] =
                [n |-> @.n + 1,
                 recent |-> LastTwo(Append(@.recent, [at |-> t, kind |-> kind]))]]
LastCall(i) == calls[i].recent[Len(calls[i].recent)]

\* Room on the clock for one more rate-limited call to begin and to end
Room == now + MinRequestInterval + MaxOversleep + MaxPrep + MaxLatency <= MaxTime

----------------------------------------------------------------------------
(* Inputs *)

Title1 == TextStr("t1", 30, FALSE)
Title2 == TextStr("t2", 60, FALSE)
Source1 == TextStr("s1", 10, FALSE)
Article(title, source) == [title |-> title, source |-> source]
\* What fetch_news_from_api returns: title and source are always strings
FetchedArticles == {Article(Title1, Source1), Article(Title2, Unknown)}
\* What a caller of analyze_article_sentiment may pass
Articles == FetchedArticles \cup {Article(None, Missing), Article(Missing, Missing)}

Reason1 == TextStr("r1", 20, FALSE)
Reason2 == TextStr("r2", 150, TRUE)
Lower(w) == LabelStr(<<w>>, "lower", FALSE)

\* What generate_content is followed through on a classification prompt: it
\* raises, or answers with an empty text, prose without an object, a fenced
\* object, an object inside prose
ClassifyResponses ==
    { Raise("ServiceError"),
      Reply(<<>>, SentimentObj(Missing, Missing, Missing)),
      Reply(<<"W", "W">>, SentimentObj(Missing, Missing, Missing)),
      Reply(<<"FJ", "SP", "OBJ", "SP", "F">>, SentimentObj(Lower("positive"), Reason1, Num(9))),
      Reply(<<"W", "SP", "OBJ", "SP", "W">>, SentimentObj(Negative, Reason2, Missing)) }

Points(n) == [k \in 1..n |-> ServicePoint(k)]
PointLists == {PyList(Points(0)), PyList(Points(3)), PyList(Points(MaxPoints))}
NarrativeObjs ==
    {NarrativeObj(b, r) : b \in PointLists \cup {Missing}, r \in PointLists \cup {Missing}}

\* What generate_content may do on the narrative prompt
NarrativeResponses ==
    { Raise("ServiceError"),
      Reply(<<>>, NarrativeObj(Missing, Missing)),
      Reply(<<"W", "W">>, NarrativeObj(Missing, Missing)),
      Reply(<<"NUM">>, NarrativeObj(Missing, Missing)),
      Reply(<<"LB", "RB">>, NarrativeObj(Missing, Missing)) }
    \cup {Reply(<<"OBJ">>, o) : o \in NarrativeObjs}
    \cup {Reply(<<"W", "FJ", "OBJ", "F">>, o) : o \in NarrativeObjs}

Judgment(sentiment, reasoning) ==
    [kind |-> "result", sentiment |-> sentiment, reasoning |-> reasoning,
     confidence |-> DefaultConfidence, article_title |-> Title1,
     article_source |-> Source1]
\* SentimentResult is a plain dataclass: nothing checks the type of a field
Judgments == {Judgment(l, r) : l \in Labels, r \in {Reason1, None}}
JudgmentLists == SeqsUpTo(Judgments, MaxJudgments)
Companies == {"Acme", "Globex"}

\* Longer lists, every judgment with a reasoning of its own
Reasons == << Reason1, Reason2, TextStr("r3", 100, FALSE), TextStr("r4", 101, FALSE),
              TextStr("r5", 99, FALSE), TextStr("r6", 0, FALSE), TextStr("r7", 40, FALSE) >>
Labelled(labels) == [k \in 1..Len(labels) |-> Judgment(labels[k], Reasons[k])]
LongJudgmentLists ==
    { Labelled(<<Positive, Positive, Negative, Positive, Positive, Positive, Positive>>),
      Labelled(<<Negative, Neutral, Negative, Negative, Negative, Negative, Negative>>),
      Labelled(<<Neutral, Negative, Neutral>>),
      Labelled(<<Neutral, Positive, Positive>>) }

\* What the narrative call is followed through in the full state machine
CallerNarrativeResponses ==
    { Raise("ServiceError"),
      Reply(<<"OBJ">>, NarrativeObj(PyList(Points(3)), PyList(Points(3)))),
      Reply(<<"W", "FJ", "OBJ", "F">>,
            NarrativeObj(PyList(Points(0)), PyList(Points(MaxPoints)))) }

\* Lists a caller hands to generate_final_report in the full state machine
CallerJudgmentLists ==
    { <<>>,
      <<Judgment(Positive, Reason1)>>,
      <<Judgment(Negative, Reason1), Judgment(Positive, Reason2)>> }

\* Articles a caller hands to analyze_article_sentiment in the full state machine
CallerArticles == {Article(Title1, Source1), Article(None, Missing)}

----------------------------------------------------------------------------
(* The state machine *)

NoBatch == [ticker |-> "unset", fetched |-> 0, articles |-> <<>>, i |-> 0,
            sentiment_results |-> <<>>, verdicts |-> <<>>, company_info |-> None]

InitCommon ==
    /\ now = Epoch
    /\ last_request_time = [i \in Instances |-> 0]
    /\ calls = [i \in Instances |-> NoCalls]
    /\ self = 1
    /\ ret = "idle"
    /\ article = None
    /\ result = None
    /\ judgments = <<>>
    /\ company = "Acme"
    /\ report = None
    /\ answer = None
    /\ batch = NoBatch
    /\ outcome = None
    /\ previous = None

Init ==
    /\ InitCommon
    /\ pc = "idle"
    /\ reply = None
    /\ parsed = None
    /\ tally = <<>>
    /\ overall = None

\* Time passes between operations.  Idle time is followed until the limiter of
\* the caller's analyzer has seen its interval elapse: more of it changes no
\* later step (the analyzer of perform_analysis does not outlive its run).
IdleTick ==
    /\ pc = "idle"
    /\ now < MaxTime
    /\ now - last_request_time[1] < MinRequestInterval
    /\ now' = now + 1
    /\ UNCHANGED <<previous, last_request_time, calls, pc, self, ret, article, result,
                   judgments, company, report, answer, batch, outcome,
                   reply, parsed, tally, overall>>

\* Time passes while generate_content is in flight
ServiceTick ==
    /\ pc \in {"analyze_wait", "report_wait"}
    /\ now - LastCall(self).at < MaxLatency
    /\ now' = now + 1
    /\ UNCHANGED <<previous, last_request_time, calls, pc, self, ret, article, result,
                   judgments, company, report, answer, batch, outcome,
                   reply, parsed, tally, overall>>

\* analyze_article_sentiment(a) on instance i, up to the service call; r is
\* where it returns to.  _rate_limit ends at time t; reading the article,
\* building the prompt and logging the title then take time d before
\* generate_content is entered.
AnalyzeBegin(i, a, r) ==
    /\ Room
    /\ \E t \in WakeTimes(now, last_request_time[i]), d \in 0..MaxPrep :
        /\ RateLimit(i, t)
        /\ now' = t + d
        /\ IF AnalyzeBeforeCall(a).kind = "raise"
           THEN /\ result' = AnalyzeReturns(AnalyzeBeforeCall(a))
                /\ pc' = r
                /\ UNCHANGED calls
           ELSE /\ IssueCall(i, t + d, "classify")
                /\ pc' = "analyze_wait"
                /\ result' = None
    /\ self' = i
    /\ article' = a
    /\ ret' = r
    /\ answer' = None

\* analyze_article_sentiment from the service's answer to its return
AnalyzeEnd(response) ==
    /\ pc = "analyze_wait"
    /\ result' = AnalyzeReturns(AnalyzeAfterCall(article, response))
    /\ answer' = response
    /\ pc' = ret
    /\ UNCHANGED <<previous, now, last_request_time, calls, self, ret, article,
                   judgments, company, report, batch, outcome, reply, parsed,
                   tally, overall>>

\* Faulty variant of generate_final_report: _rate_limit runs before the list
\* is looked at
ReportBeginLimitFirst(i, js, c, r) ==
    /\ Room
    /\ \E t \in WakeTimes(now, last_request_time[i]) :
        /\ RateLimit(i, t)
        /\ now' = t
        /\ IF FinalReportBeforeCall(js, c).kind = "call"
           THEN /\ IssueCall(i, t, "narrative")
                /\ pc' = "report_wait"
                /\ report' = None
           ELSE /\ report' = FinalReportReturns(FinalReportBeforeCall(js, c), c)
                /\ pc' = r
                /\ UNCHANGED calls
    /\ self' = i
    /\ judgments' = js
    /\ company' = c
    /\ ret' = r
    /\ answer' = None

\* generate_final_report(js, c) on instance i, up to the narrative call, which
\* is the statement right after _rate_limit
ReportBegin(i, js, c, r) ==
    /\ Room
    /\ IF FinalReportBeforeCall(js, c).kind = "call"
       THEN /\ \E t \in WakeTimes(now, last_request_time[i]) :
                /\ RateLimit(i, t)
                /\ now' = t
                /\ IssueCall(i, t, "narrative")
            /\ pc' = "report_wait"
            /\ report' = None
       ELSE /\ report' = FinalReportReturns(FinalReportBeforeCall(js, c), c)
            /\ pc' = r
            /\ UNCHANGED <<now, last_request_time, calls>>
    /\ self' = i
    /\ judgments' = js
    /\ company' = c
    /\ ret' = r
    /\ answer' = None

\* generate_final_report from the service's answer to its return
ReportEnd(response) ==
    /\ pc = "report_wait"
    /\ report' = FinalReportReturns(FinalReportTry(judgments, company, response), company)
    /\ answer' = response
    /\ pc' = ret
    /\ UNCHANGED <<previous, now, last_request_time, calls, self, ret, article, result,
                   judgments, company, batch, outcome, reply, parsed, tally,
                   overall>>

\* The latest classification that went through the service, as the caller
\* saw it, when there is one to remember
Remembered ==
    IF article # None /\ answer # None
    THEN [article |-> article, answer |-> answer, result |-> result]
    ELSE previous

\* A caller classifies one article with its own analyzer; what earlier
\* operations returned to it is dropped
CallAnalyze ==
    /\ pc = "idle"
    /\ \E a \in CallerArticles : AnalyzeBegin(1, a, "idle")
    /\ judgments' = <<>>
    /\ report' = None
    /\ previous' = Remembered
    /\ UNCHANGED <<company, batch, outcome, reply, parsed, tally, overall>>

ServiceAnswersClassify ==
    \E response \in ClassifyResponses : AnalyzeEnd(response)

\* A caller asks its own analyzer for a report
CallReport ==
    /\ pc = "idle"
    /\ \E js \in CallerJudgmentLists : ReportBegin(1, js, company, "idle")
    /\ article' = None
    /\ result' = None
    /\ previous' = Remembered
    /\ UNCHANGED <<batch, outcome, reply, parsed, tally, overall>>

ServiceAnswersNarrative ==
    \E response \in CallerNarrativeResponses : ReportEnd(response)

----------------------------------------------------------------------------
(* perform_analysis (app.py) *)

CompanyInfo == [kind |-> "info"]
ArticleLists == SeqsUpTo(FetchedArticles, MaxArticles)
Outcome(company_info, rep, error) ==
    [kind |-> "outcome", company_info |-> company_info, report |-> rep, error |-> error]
ErrorText(which) == [kind |-> "text", id |-> which]

\* Faulty variant of the except clause of perform_analysis: the exception
\* goes on to the caller
PerformAnalysisReturnsUncaught(r) == r

\* The except clause of perform_analysis: what it hands to its caller when
\* the body returned the tuple r or raised
PerformAnalysisReturns(r) ==
    IF r.kind = "raise"
    THEN Outcome(None, None, ErrorText("Analysis failed"))
    ELSE r

\* From the constructors to the first article: `setup` is whether a constructor
\* raises, `ticker` what get_ticker returns, `info` what get_company_info
\* returns, `fetched` what fetch_news_from_api returns.  One run is followed.
PerformAnalysisBegin ==
    /\ pc = "idle"
    /\ outcome = None
    /\ \E setup \in {"ok", "raise"}, ticker \in {"found", "none"},
          info \in {CompanyInfo, None}, fetched \in ArticleLists,
          max_articles \in 1..MaxArticles :
        IF setup = "raise"
        THEN /\ outcome' = PerformAnalysisReturns(Raise("SetupError"))
             /\ pc' = "idle"
             /\ UNCHANGED <<last_request_time, calls, batch>>
        ELSE /\ last_request_time' = [last_request_time EXCEPT ![2] = 0]
             /\ calls' = [calls EXCEPT ![2] = NoCalls]
             /\ IF ticker = "none"
                THEN /\ outcome' = PerformAnalysisReturns(
                                       Outcome(None, None, ErrorText("Could not find ticker")))
                     /\ pc' = "idle"
                     /\ batch' = [NoBatch EXCEPT !.ticker = "none"]
                ELSE IF fetched = <<>>
                THEN /\ outcome' = PerformAnalysisReturns(
                                       Outcome(info, None, ErrorText("No recent news")))
                     /\ pc' = "idle"
                     /\ batch' = [NoBatch EXCEPT !.ticker = "found", !.company_info = info]
                ELSE /\ batch' = [NoBatch EXCEPT
                                     !.ticker = "found",
                                     !.fetched = Len(fetched),
                                     !.articles = Take(fetched, max_articles),
                                     !.company_info = info]
                     /\ pc' = "pa_loop"
                     /\ UNCHANGED outcome
    /\ UNCHANGED <<previous, now, self, ret, article, result, judgments, company, report,
                   answer, reply, parsed, tally, overall>>

\* The loop body up to the service call of the next article
PerformAnalysisClassify ==
    /\ pc = "pa_loop"
    /\ batch.i < Len(batch.articles)
    /\ AnalyzeBegin(2, batch.articles[batch.i + 1], "pa_collect")
    /\ UNCHANGED <<previous, judgments, company, report, batch, outcome, reply, parsed,
                   tally, overall>>

\* Faulty variant of the loop body: an article without a judgment is
\* classified again
PerformAnalysisCollectRetry ==
    /\ pc = "pa_collect"
    /\ IF result.kind = "raise"
       THEN /\ outcome' = PerformAnalysisReturns(result)
            /\ pc' = "idle"
            /\ UNCHANGED batch
       ELSE /\ batch' = IF result.kind = "result"
                        THEN [batch EXCEPT !.i = @ + 1,
                                           !.verdicts = Append(@, result),
                                           !.sentiment_results = Append(@, result)]
                        ELSE batch
            /\ pc' = "pa_loop"
            /\ UNCHANGED outcome
    /\ answer' = None
    /\ UNCHANGED <<previous, now, last_request_time, calls, self, ret, article, result,
                   judgments, company, report, reply, parsed, tally, overall>>

\* The loop body after analyze_article_sentiment: an exception leaves the
\* loop for the except clause of perform_analysis
PerformAnalysisCollect ==
    /\ pc = "pa_collect"
    /\ IF result.kind = "raise"
       THEN /\ outcome' = PerformAnalysisReturns(result)
            /\ pc' = "idle"
            /\ UNCHANGED batch
       ELSE /\ batch' = [batch EXCEPT
                            !.i = @ + 1,
                            !.verdicts = Append(@, result),
                            !.sentiment_results =
                                IF result.kind = "result" THEN Append(@, result) ELSE @]
            /\ pc' = "pa_loop"
            /\ UNCHANGED outcome
    /\ answer' = None
    /\ UNCHANGED <<previous, now, last_request_time, calls, self, ret, article, result,
                   judgments, company, report, reply, parsed, tally, overall>>

\* Faulty variant of the step after the loop: generate_final_report whatever
\* the loop collected
PerformAnalysisSynthesizeAlways ==
    /\ pc = "pa_loop"
    /\ batch.i = Len(batch.articles)
    /\ ReportBegin(2, batch.sentiment_results, company, "pa_return")
    /\ UNCHANGED <<previous, outcome, article, result, batch, reply, parsed, tally, overall>>

\* Faulty variant of the step after the loop: it does not wait for the last
\* article
PerformAnalysisSynthesizeEarly ==
    /\ pc = "pa_loop"
    /\ batch.i >= 1
    /\ IF batch.sentiment_results = <<>>
       THEN /\ outcome' = PerformAnalysisReturns(
                              Outcome(batch.company_info, None,
                                      ErrorText("Could not analyze sentiment")))
            /\ pc' = "idle"
            /\ UNCHANGED <<now, last_request_time, calls, self, ret, judgments,
                           company, report, answer>>
       ELSE /\ ReportBegin(2, batch.sentiment_results, company, "pa_return")
            /\ UNCHANGED outcome
    /\ UNCHANGED <<previous, article, result, batch, reply, parsed, tally, overall>>

\* After the loop: no judgment at all, or generate_final_report
PerformAnalysisSynthesize ==
    /\ pc = "pa_loop"
    /\ batch.i = Len(batch.articles)
    /\ IF batch.sentiment_results = <<>>
       THEN /\ outcome' = PerformAnalysisReturns(
                              Outcome(batch.company_info, None,
                                      ErrorText("Could not analyze sentiment")))
            /\ pc' = "idle"
            /\ UNCHANGED <<now, last_request_time, calls, self, ret, judgments,
                           company, report, answer>>
       ELSE /\ ReportBegin(2, batch.sentiment_results, company, "pa_return")
            /\ UNCHANGED outcome
    /\ UNCHANGED <<previous, article, result, batch, reply, parsed, tally, overall>>

\* Faulty variant of the return: the report's total is the number of articles
\* the news fetch returned
PerformAnalysisReturnTotalFetched ==
    /\ pc = "pa_return"
    /\ outcome' = PerformAnalysisReturns(
                      IF report.kind = "raise" THEN report
                      ELSE Outcome(batch.company_info,
                                   [report EXCEPT !.total_articles = batch.fetched],
                                   None))
    /\ pc' = "idle"
    /\ UNCHANGED <<previous, now, last_request_time, calls, self, ret, article, result,
                   judgments, company, report, answer, batch, reply, parsed,
                   tally, overall>>

\* The report of generate_final_report goes to the caller as it is
PerformAnalysisReturn ==
    /\ pc = "pa_return"
    /\ outcome' = PerformAnalysisReturns(
                      IF report.kind = "raise" THEN report
                      ELSE Outcome(batch.company_info, report, None))
    /\ pc' = "idle"
    /\ UNCHANGED <<previous, now, last_request_time, calls, self, ret, article, result,
                   judgments, company, report, answer, batch, reply, parsed,
                   tally, overall>>

----------------------------------------------------------------------------
(* Two analyzers side by side *)

\* SentimentAnalyzer(api_key): the name i is bound to a new instance, as
\* perform_analysis does at the start of every run
NewAnalyzer(i) ==
    /\ pc = "idle"
    /\ calls[i].n > 0
    /\ last_request_time' = [last_request_time EXCEPT ![i] = 0]
    /\ calls' = [calls EXCEPT ![i] = NoCalls]
    /\ UNCHANGED <<now, pc, self, ret, article, result, judgments, company, report,
                   answer, batch, outcome, reply, parsed, tally, overall, previous>>

\* A caller classifies one article with analyzer i
ClassifyOn(i) ==
    /\ pc = "idle"
    /\ AnalyzeBegin(i, Article(Title1, Source1), "idle")
    /\ UNCHANGED <<judgments, company, report, batch, outcome, reply, parsed, tally,
                   overall, previous>>

\* The service raises, or answers with a fenced object
ServiceAnswersOrRaises ==
    \E response \in { Raise("ServiceError"),
                      Reply(<<"FJ", "SP", "OBJ", "SP", "F">>,
                            SentimentObj(Lower("positive"), Reason1, Num(9))) } :
        AnalyzeEnd(response)

\* Time passes between operations, as long as some analyzer has not seen its
\* interval elapse
IdleTickAny ==
    /\ pc = "idle"
    /\ now < MaxTime
    /\ \E i \in Instances : now - last_request_time[i] < MinRequestInterval
    /\ now' = now + 1
    /\ UNCHANGED <<previous, last_request_time, calls, pc, self, ret, article, result,
                   judgments, company, report, answer, batch, outcome,
                   reply, parsed, tally, overall>>

----------------------------------------------------------------------------
(* Pure functions on enumerated inputs *)

Words == {<<"positive">>, <<"negative">>, <<"neutral">>, <<"bullish">>,
          <<"very", "positive">>}
Casings == {"lower", "title", "upper"}
SentimentVals ==
    {Missing, NonString} \cup {LabelStr(w, c, p) : w \in Words, c \in Casings, p \in BOOLEAN}
ReasoningVals == {Missing, NonString, Reason1, Reason2}
ConfidenceVals == {Missing, Num(9), Num(15)}
SentimentObjs ==
    {SentimentObj(s, r, c) : s \in SentimentVals, r \in ReasoningVals, c \in ConfidenceVals}
\* Objects every token sequence is tried with
CoreObjs == { SentimentObj(LabelStr(<<"positive">>, "lower", TRUE), Reason2, Num(9)),
              SentimentObj(Negative, Missing, Missing) }
\* Texts every object is tried in
Envelopes == { <<"OBJ">>, <<"FJ", "SP", "OBJ", "SP", "F">>, <<"W", "SP", "OBJ", "SP", "W">> }

ParseInputs ==
    {Reply(t, o) : t \in SeqsUpTo(Tokens, MaxReplyLen), o \in CoreObjs}
    \cup {Reply(t, o) : t \in Envelopes, o \in SentimentObjs}
    \cup {Raise("ServiceError")}

ParseArticles == {Article(Title1, Source1), Article(Missing, Missing)}

InitParse ==
    /\ InitCommon
    /\ pc = "parse"
    /\ reply \in ParseInputs
    /\ parsed = None
    /\ tally = <<>>
    /\ overall = None

\* _parse_sentiment_response on the reply, and analyze_article_sentiment from
\* that answer of the service on
ClassifyReply ==
    /\ pc = "parse"
    /\ parsed' = IF reply.kind = "raise" THEN None ELSE ParseSentimentResponse(reply)
    /\ \E a \in ParseArticles :
        /\ article' = a
        /\ result' = AnalyzeReturns(AnalyzeAfterCall(a, reply))
    /\ pc' = "parsed"
    /\ UNCHANGED <<previous, now, last_request_time, calls, self, ret, judgments, company,
                   report, answer, batch, outcome, reply, tally, overall>>

\* count copies of x
Copies(x, count) == [k \in 1..count |-> x]
\* The lists whose tally is a given sequence of labels with given counts
RunLists ==
    {Copies(a, n) : a \in Labels, n \in 1..MaxCount}
    \cup {Copies(a, n) \o Copies(b, m) :
            a \in Labels, b \in Labels, n \in 1..MaxCount, m \in 1..MaxCount}
    \cup {Copies(o[1], n[1]) \o Copies(o[2], n[2]) \o Copies(o[3], n[3]) :
            o \in {p \in [1..3 -> Labels] : Cardinality({p[1], p[2], p[3]}) = 3},
            n \in [1..3 -> 1..MaxCount]}
LabelLists == (SeqsUpTo(Labels, MaxTallyLen) \cup RunLists) \ {<<>>}

InitOverall ==
    /\ InitCommon
    /\ pc = "tally"
    /\ reply = None
    /\ parsed = None
    /\ tally \in LabelLists
    /\ overall = None

\* The tally, the percentages and the overall sentiment of generate_final_report
\* for the judgment list whose labels are `tally`
DetermineOverall ==
    /\ pc = "tally"
    /\ overall' = DetermineOverallSentiment(
                      SentimentPercentages(Counter(tally), Len(tally)))
    /\ pc' = "overall"
    /\ UNCHANGED <<previous, now, last_request_time, calls, self, ret, article, result,
                   judgments, company, report, answer, batch, outcome, reply,
                   parsed, tally>>

----------------------------------------------------------------------------
(* Specifications *)

\* A caller drives its own analyzer: classifications and reports in any order
Next ==
    \/ IdleTick
    \/ ServiceTick
    \/ CallAnalyze
    \/ ServiceAnswersClassify
    \/ CallReport
    \/ ServiceAnswersNarrative

Spec == Init /\ [][Next]_vars

\* One run of perform_analysis
NextApp ==
    \/ ServiceTick
    \/ ServiceAnswersClassify
    \/ ServiceAnswersNarrative
    \/ PerformAnalysisBegin
    \/ PerformAnalysisClassify
    \/ PerformAnalysisCollect
    \/ PerformAnalysisSynthesize
    \/ PerformAnalysisReturn

SpecApp == Init /\ [][NextApp]_vars

\* generate_final_report on a fresh analyzer, for every judgment list of the
\* bounds and every answer of the service
ReportLists ==
    JudgmentLists \cup LongJudgmentLists
    \cup {<<None>>, <<Judgment(Positive, Reason1), None>>}

SynthesizeBegin ==
    /\ pc = "idle"
    /\ calls[1] = NoCalls
    /\ report = None
    /\ \E js \in ReportLists, c \in Companies : ReportBegin(1, js, c, "done")
    /\ UNCHANGED <<previous, article, result, batch, outcome, reply, parsed, tally, overall>>

SynthesizeEnd ==
    \E response \in NarrativeResponses : ReportEnd(response)

NextReport == SynthesizeBegin \/ SynthesizeEnd

SpecReport == Init /\ [][NextReport]_vars

\* Two analyzers used in turn, each replaced by a new instance at any time
NextInstances ==
    \/ IdleTickAny
    \/ ServiceTick
    \/ \E i \in Instances : NewAnalyzer(i)
    \/ \E i \in Instances : ClassifyOn(i)
    \/ ServiceAnswersOrRaises

SpecInstances == Init /\ [][NextInstances]_vars

\* The classifier's parsing, for every reply of the bounds
SpecParse == InitParse /\ [][ClassifyReply]_vars

\* The overall sentiment, for every label list of the bounds
SpecOverall == InitOverall /\ [][DetermineOverall]_vars

----------------------------------------------------------------------------
(* Properties *)

\* C1: on one instance, any two consecutive calls to the service start at
\* least min_request_interval time units apart.
C1_CallsSpaced ==
    \A i \in Instances :
        Len(calls[i].recent) = 2 =>
            calls[i].recent[2].at - calls[i].recent[1].at >= MinRequestInterval

\* C2: analyze_article_sentiment never raises: it returns None when the
\* service raises, answers nothing or answers what cannot be parsed; and a run
\* of perform_analysis that reached its loop has classified every article,
\* whatever happened to the earlier ones.
C2_FailuresBecomeNone ==
    /\ result.kind \in {"none", "result"}
    /\ (/\ pc = "pa_collect"
        /\ \/ answer.kind = "raise"
           \/ /\ answer.kind = "text"
              /\ \A k \in 1..Len(answer.toks) : answer.toks[k] # "OBJ")
       => result = None
    /\ (outcome # None /\ batch.articles # <<>>)
       => /\ Len(batch.verdicts) = Len(batch.articles)
          /\ outcome.error \in {None, ErrorText("Could not analyze sentiment")}

\* C2 witness: a finished run whose first article failed and whose second
\* article was classified and reported on
C2_LaterArticleClassified ==
    /\ outcome # None
    /\ Len(batch.articles) >= 2
    /\ Len(batch.verdicts) = Len(batch.articles)
    /\ batch.verdicts[1] = None
    /\ batch.verdicts[2].kind = "result"
    /\ outcome.report # None

C3_IsFallbackPoint(p) == p.kind \in {"fallback", "placeholder"}
C3_IsEmptyReport(r) ==
    /\ r.kind = "report"
    /\ r.total_articles = 0
    /\ r.analyzed_articles = 0
    /\ r.bull_case = <<[kind |-> "placeholder", which |-> "no_news"]>>
    /\ r.bear_case = <<[kind |-> "placeholder", which |-> "no_news"]>>

\* C3: generate_final_report returns a report for every judgment list and
\* every behaviour of the service; when the service raises, the lists are the
\* fallback lists unless the fallback raises too; an exception of the outer
\* step (an item that is no judgment, a fallback that raises) gives the empty
\* report.
C3_ReportNeverFails ==
    /\ report.kind \in {"none", "report"}
    /\ pc = "done" => report.kind = "report"
    /\ (pc = "done" /\ answer.kind = "raise" /\ report.kind = "report")
       => /\ \A k \in 1..Len(report.bull_case) : C3_IsFallbackPoint(report.bull_case[k])
          /\ \A k \in 1..Len(report.bear_case) : C3_IsFallbackPoint(report.bear_case[k])
    /\ (/\ pc = "done"
        /\ \/ \E k \in 1..Len(judgments) : judgments[k].kind # "result"
           \/ /\ answer.kind = "raise"
              /\ \E k \in 1..Len(judgments) :
                    /\ judgments[k].sentiment.word \in {<<"positive">>, <<"negative">>}
                    /\ judgments[k].reasoning.kind \notin {"str", "text"})
       => C3_IsEmptyReport(report)

\* C3 witness: the service raised, the fallback raised on a reasoning that is
\* no string, and the empty report was returned
C3_OuterExceptionDegraded ==
    /\ pc = "done"
    /\ answer.kind = "raise"
    /\ judgments # <<>>
    /\ \A k \in 1..Len(judgments) : judgments[k].kind = "result"
    /\ C3_IsEmptyReport(report)

\* C4: in every report returned by generate_final_report, bull_case and
\* bear_case each hold at least one point.
C4_CasesNeverEmpty ==
    (pc = "done" /\ report.kind = "report")
    => Len(report.bull_case) >= 1 /\ Len(report.bear_case) >= 1

\* C5: in every report returned by generate_final_report, bull_case and
\* bear_case each hold at most 5 points.
C5_CasesAtMostFive ==
    (pc = "done" /\ report.kind = "report")
    => Len(report.bull_case) <= 5 /\ Len(report.bear_case) <= 5

\* The number of judgments of the list under test that carry label l
LabelCount(l) == Cardinality({k \in 1..Len(tally) : tally[k] = l})
TopCount == Max({LabelCount(l) : l \in {Positive, Negative, Neutral}})

\* C6: the overall sentiment is a label with the highest percentage, except
\* that it is Neutral when the highest percentage is strictly below 40; a
\* highest percentage of exactly 40 is not overridden.
C6_OverallRule ==
    pc = "overall" =>
        IF 100 * TopCount < 40 * Len(tally)
        THEN overall = Neutral
        ELSE LabelCount(overall) = TopCount

\* C6 witness: 35/35/30 gives Neutral
C6_NoLabelReachesForty ==
    /\ pc = "overall"
    /\ LabelCount(Positive) = 7
    /\ LabelCount(Negative) = 7
    /\ LabelCount(Neutral) = 6
    /\ overall = Neutral

\* C7: when the highest percentage is at least 40, the overall sentiment is
\* the label of highest percentage whose first occurrence in the judgment list
\* is the earliest.
C7_EarliestTiedLabel ==
    (pc = "overall" /\ 100 * TopCount >= 40 * Len(tally))
    => overall = tally[Min({k \in 1..Len(tally) : LabelCount(tally[k]) = TopCount})]

\* C7 witness: Positive and Negative tie at the top, Positive occurs first
\* in the list and Negative first in another list of the same counts
C7_TieGoesToFirstSeen ==
    /\ pc = "overall"
    /\ LabelCount(Positive) = TopCount
    /\ LabelCount(Negative) = TopCount
    /\ 100 * TopCount >= 40 * Len(tally)
    /\ tally[1] = Negative
    /\ overall = Negative

\* A data block decodes to a judgment: it is one object, whitespace around it
\* allowed, whose sentiment is a string that strips and title-cases to one of
\* the three labels and whose reasoning is a string
C8_Decodes(block, obj) ==
    /\ \E k \in 1..Len(block) :
        /\ block[k] = "OBJ"
        /\ \A j \in 1..Len(block) : j # k => block[j] = "SP"
    /\ obj.sentiment.kind = "str"
    /\ obj.sentiment.word \in {<<"positive">>, <<"negative">>, <<"neutral">>}
    /\ obj.reasoning.kind \in {"str", "text"}

C9_LabelNormalised ==
    pc = "parsed" =>
        /\ result.kind \in {"none", "result"}
        /\ result.kind = "result"
           => result.sentiment \in
                {[kind |-> "str", word |-> <<w>>, casing |-> "title", pad |-> FALSE] :
                    w \in {"positive", "negative", "neutral"}}
        /\ (/\ reply.kind = "text"
            /\ reply.toks \in Envelopes
            /\ reply.obj.sentiment.kind = "str"
            /\ reply.obj.reasoning.kind \in {"str", "text"})
           => IF reply.obj.sentiment.word \in {<<"positive">>, <<"negative">>, <<"neutral">>}
              THEN /\ result.kind = "result"
                   /\ result.sentiment =
                        [kind |-> "str", word |-> reply.obj.sentiment.word,
                         casing |-> "title", pad |-> FALSE]
              ELSE result = None

\* C9 witness: ' positive ' in lower case gave Positive
C9_LowerCaseAccepted ==
    /\ pc = "parsed"
    /\ reply.kind = "text"
    /\ reply.obj.sentiment = [kind |-> "str", word |-> <<"positive">>,
                              casing |-> "lower", pad |-> TRUE]
    /\ result.kind = "result"
    /\ result.sentiment = Positive

\* C10: for an empty judgment list and any company name the report is
\* Neutral, {Neutral: 0}, {Neutral: 100.0}, one 'no data' placeholder in each
\* list, no article considered and none analysed.
C10_EmptyListEmptyReport ==
    (pc = "done" /\ judgments = <<>>) =>
        /\ report.kind = "report"
        /\ report.overall_sentiment = Neutral
        /\ report.sentiment_breakdown = <<[key |-> Neutral, count |-> 0]>>
        /\ Len(report.sentiment_percentages) = 1
        /\ report.sentiment_percentages[1].key = Neutral
        /\ report.sentiment_percentages[1].pct.num
             = 100 * report.sentiment_percentages[1].pct.den
        /\ report.bull_case = <<[kind |-> "placeholder", which |-> "no_news"]>>
        /\ report.bear_case = <<[kind |-> "placeholder", which |-> "no_news"]>>
        /\ report.total_articles = 0
        /\ report.analyzed_articles = 0

\* C10 witness: the empty list was reported on for the second company name
C10_EmptyListReported ==
    /\ pc = "done"
    /\ judgments = <<>>
    /\ company = "Globex"
    /\ report.kind = "report"

\* A finished run of perform_analysis that found a ticker and then no
\* article, or no judgment for any article
NoUsableData ==
    /\ outcome # None
    /\ batch.ticker = "found"
    /\ \/ batch.articles = <<>>
       \/ batch.i = Len(batch.articles) /\ batch.sentiment_results = <<>>

\* C11 as stated: a run with no article, or with no judgment, ends with the
\* canonical empty report and no error.
C11_AbsenceGivesEmptyReport ==
    NoUsableData => (outcome.error = None /\ C3_IsEmptyReport(outcome.report))

\* C11 as amended: a run with no article, or with no judgment, ends with no
\* report and an error message, and generate_final_report was not called.
C11_AbsenceIsErrorOutcome ==
    NoUsableData =>
        /\ outcome.report = None
        /\ outcome.error = IF batch.articles = <<>>
                           THEN [kind |-> "text", id |-> "No recent news"]
                           ELSE [kind |-> "text", id |-> "Could not analyze sentiment"]
        /\ report = None
        /\ \A k \in 1..Len(calls[2].recent) : calls[2].recent[k].kind = "classify"

\* C11 witness: both articles of a run were classified and neither gave a
\* judgment
C11_NoJudgmentAtAll ==
    /\ NoUsableData
    /\ Len(batch.articles) >= 2
    /\ \A k \in 1..Len(batch.verdicts) : batch.verdicts[k] = None

\* C12: perform_analysis never raises, and what it returns holds either a
\* report and no error, or an error and no report.
C12_ReportXorError ==
    /\ outcome.kind \in {"none", "outcome"}
    /\ outcome.kind = "outcome"
       => \/ outcome.report # None /\ outcome.report.kind = "report" /\ outcome.error = None
          \/ outcome.report = None /\ outcome.error # None /\ outcome.error.kind = "text"

\* C12 witness: a constructor raised and the run ended with the error signal
C12_SetupFailureSignalled ==
    /\ outcome.kind = "outcome"
    /\ batch.ticker = "unset"
    /\ outcome.report = None
    /\ outcome.error = [kind |-> "text", id |-> "Analysis failed"]

\* The list handed to generate_final_report holds SentimentResults whose
\* labels are among the three and whose reasonings are strings
WellTypedJudgments ==
    /\ judgments # <<>>
    /\ \A k \in 1..Len(judgments) :
        /\ judgments[k].kind = "result"
        /\ judgments[k].reasoning.kind \in {"str", "text"}

\* The number of judgments of the list handed over that carry label l
JudgedAs(l) == Cardinality({k \in 1..Len(judgments) : judgments[k].sentiment = l})

RECURSIVE SumOfRatios(_)
\* The sum of a sequence of ratios num / den, as a ratio
SumOfRatios(ratios) ==
    IF ratios = <<>> THEN [num |-> 0, den |-> 1]
    ELSE LET rest == SumOfRatios(Tail(ratios))
         IN  [num |-> ratios[1].num * rest.den + rest.num * ratios[1].den,
              den |-> ratios[1].den * rest.den]

RECURSIVE SumOfCounts(_)
SumOfCounts(entries) ==
    IF entries = <<>> THEN 0 ELSE entries[1].count + SumOfCounts(Tail(entries))

\* C13: for a list that is not empty, the percentage of every key is 100 times
\* its count over the number of judgments handed over, which is
\* analyzed_articles, and the percentages sum to 100.
C13_PercentagesOfAnalyzed ==
    (pc = "done" /\ WellTypedJudgments) =>
        /\ report.analyzed_articles = Len(judgments)
        /\ Len(report.sentiment_percentages) = Len(report.sentiment_breakdown)
        /\ \A k \in 1..Len(report.sentiment_percentages) :
            LET p == report.sentiment_percentages[k]
                b == report.sentiment_breakdown[k]
            IN  /\ p.key = b.key
                /\ p.pct.den > 0
                /\ p.pct.num * report.analyzed_articles = 100 * b.count * p.pct.den
                /\ b.count = JudgedAs(p.key)
        /\ LET total == SumOfRatios([k \in 1..Len(report.sentiment_percentages) |->
                                        report.sentiment_percentages[k].pct])
           IN  total.num = 100 * total.den

\* C13 witness: two of three judgments share a label
C13_TwoThirdsOneThird ==
    /\ pc = "done"
    /\ WellTypedJudgments
    /\ Len(judgments) = 3
    /\ Len(report.sentiment_percentages) = 2
    /\ report.sentiment_percentages[1].pct.num * 3 = 200 * report.sentiment_percentages[1].pct.den

\* C14: for a list that is not empty, the keys of sentiment_breakdown are the
\* labels that occur in the list, each once, every count is the number of
\* judgments with that label and at least 1, and the counts sum to
\* analyzed_articles; a count of 0 appears in the empty report only.
C14_BreakdownIsTally ==
    /\ (pc = "done" /\ WellTypedJudgments) =>
        LET b == report.sentiment_breakdown
        IN  /\ {b[k].key : k \in 1..Len(b)}
                 = {judgments[k].sentiment : k \in 1..Len(judgments)}
            /\ Cardinality({b[k].key : k \in 1..Len(b)}) = Len(b)
            /\ \A k \in 1..Len(b) : b[k].count >= 1 /\ b[k].count = JudgedAs(b[k].key)
            /\ SumOfCounts(b) = report.analyzed_articles
    /\ (/\ pc = "done"
        /\ \E k \in 1..Len(report.sentiment_breakdown) :
              report.sentiment_breakdown[k].count = 0)
       => C3_IsEmptyReport(report)

\* C14 witness: a list of seven judgments with two labels
C14_SixAndOneTallied ==
    /\ pc = "done"
    /\ WellTypedJudgments
    /\ Len(judgments) = 7
    /\ report.sentiment_breakdown
         = <<[key |-> Positive, count |-> 6], [key |-> Negative, count |-> 1]>>

\* The narrative step failed: the service raised, answered nothing, answered
\* without an object, or with an object that lacks bull_case or bear_case
NarrativeFailed ==
    \/ answer.kind = "raise"
    \/ /\ answer.kind = "text"
       /\ \/ \A k \in 1..Len(answer.toks) : answer.toks[k] # "OBJ"
          \/ answer.obj.bull_case = Missing
          \/ answer.obj.bear_case = Missing

\* The entry of the fallback lists for a reasoning: bullet, at most its first
\* 100 characters, three dots
ExpectedEntry(reasoning) ==
    [kind |-> "fallback", prefix |-> "bullet",
     body |-> [kind |-> "text", id |-> reasoning.id, pad |-> reasoning.pad,
               len |-> IF reasoning.len > 100 THEN 100 ELSE reasoning.len],
     suffix |-> "..."]

\* The fallback list for label l: the entries of the first five judgments with
\* that label, in their order, or the one placeholder
ExpectedFallback(l, which) ==
    LET at == {k \in 1..Len(judgments) : judgments[k].sentiment = l}
        n == IF Cardinality(at) > 5 THEN 5 ELSE Cardinality(at)
    IN  IF at = {} THEN <<[kind |-> "placeholder", which |-> which]>>
        ELSE [j \in 1..n |-> ExpectedEntry(judgments[Nth(at, j)].reasoning)]

\* C15: whenever the narrative step fails, bull_case and bear_case are both
\* the fallback lists of the judgments, and no point of the reply is in them.
C15_FailureGivesFallback ==
    (pc = "done" /\ WellTypedJudgments /\ NarrativeFailed) =>
        /\ report.bull_case = ExpectedFallback(Positive, "bull_default")
        /\ report.bear_case = ExpectedFallback(Negative, "bear_default")
        /\ \A k \in 1..Len(report.bull_case) : report.bull_case[k].kind # "svc"
        /\ \A k \in 1..Len(report.bear_case) : report.bear_case[k].kind # "svc"

\* C15 witness: the reply held a bull_case and no bear_case, and both lists
\* are fallback lists
C15_HalfReplyDiscarded ==
    /\ pc = "done"
    /\ WellTypedJudgments
    /\ answer.kind = "text"
    /\ answer.toks = <<"OBJ">>
    /\ answer.obj.bull_case # Missing
    /\ answer.obj.bear_case = Missing
    /\ report.bull_case[1].kind \in {"fallback", "placeholder"}

\* The positions of the judgments with label l, and how many entries the
\* fallback list for l holds
PositionsOf(l) == {k \in 1..Len(judgments) : judgments[k].sentiment = l}
FallbackLength(l) ==
    IF JudgedAs(l) = 0 THEN 1 ELSE IF JudgedAs(l) > 5 THEN 5 ELSE JudgedAs(l)

\* list holds, in order, one entry for each of the first judgments with label
\* l, or the placeholder `which` when there is none
HoldsFirstOf(list, l, which) ==
    /\ Len(list) = FallbackLength(l)
    /\ IF JudgedAs(l) = 0
       THEN list[1] = [kind |-> "placeholder", which |-> which]
       ELSE \A j \in 1..Len(list) :
                /\ list[j].kind = "fallback"
                /\ list[j].body.id = judgments[Nth(PositionsOf(l), j)].reasoning.id

\* C16: the fallback bull list holds the entries of the first 5 Positive
\* judgments and the bear list those of the first 5 Negative ones, in the
\* order of the judgments; a list without a judgment of its label holds one
\* placeholder; 6 Positive and 1 Negative give 5 and 1 entries.
C16_FallbackContent ==
    (pc = "done" /\ WellTypedJudgments /\ NarrativeFailed) =>
        /\ HoldsFirstOf(report.bull_case, Positive, "bull_default")
        /\ HoldsFirstOf(report.bear_case, Negative, "bear_default")
        /\ (JudgedAs(Positive) = 6 /\ JudgedAs(Negative) = 1)
           => (Len(report.bull_case) = 5 /\ Len(report.bear_case) = 1)

\* C16 witness: six Positive judgments and one Negative, five and one entries
C16_SixPositiveOneNegative ==
    /\ pc = "done"
    /\ WellTypedJudgments
    /\ NarrativeFailed
    /\ JudgedAs(Positive) = 6
    /\ JudgedAs(Negative) = 1
    /\ Len(report.bull_case) = 5
    /\ Len(report.bear_case) = 1
    /\ report.bull_case[3].body.id = judgments[4].reasoning.id

\* The non-placeholder entries of the fallback lists of a returned report
FallbackEntriesOfReport ==
    IF pc = "done" /\ report.kind = "report"
    THEN {report.bull_case[k] : k \in 1..Len(report.bull_case)}
         \cup {report.bear_case[k] : k \in 1..Len(report.bear_case)}
    ELSE {}

\* C17 as stated: an entry of a fallback list is the prefix and at most the
\* first 100 characters of the reasoning, and nothing else.
C17_EntryIsPrefixAndCut ==
    \A e \in FallbackEntriesOfReport :
        e.kind = "fallback" =>
            /\ e.prefix = "bullet"
            /\ e.body.len <= 100
            /\ e.suffix = ""

\* C17 as amended: an entry of a fallback list is the prefix, at most the
\* first 100 characters of the reasoning, and three dots, whether or not the
\* reasoning was cut.
C17_EntryIsPrefixCutAndDots ==
    /\ \A e \in FallbackEntriesOfReport :
        e.kind = "fallback" =>
            /\ e.prefix = "bullet"
            /\ e.body.len <= 100
            /\ e.suffix = "..."
    /\ (pc = "done" /\ WellTypedJudgments /\ NarrativeFailed) =>
        /\ \A j \in 1..Len(report.bull_case) :
              report.bull_case[j].kind = "fallback" =>
                LET r == judgments[Nth(PositionsOf(Positive), j)].reasoning
                IN  report.bull_case[j].body.len = IF r.len > 100 THEN 100 ELSE r.len
        /\ \A j \in 1..Len(report.bear_case) :
              report.bear_case[j].kind = "fallback" =>
                LET r == judgments[Nth(PositionsOf(Negative), j)].reasoning
                IN  report.bear_case[j].body.len = IF r.len > 100 THEN 100 ELSE r.len

\* C17 witness: a reasoning of 150 characters was cut to 100 and one of 20
\* characters was kept whole, both followed by the dots
C17_LongCutShortDotted ==
    /\ pc = "done"
    /\ WellTypedJudgments
    /\ NarrativeFailed
    /\ Len(report.bull_case) >= 2
    /\ judgments[1].reasoning.len = 20
    /\ judgments[2].reasoning.len = 150
    /\ report.bull_case[1].body.len = 20
    /\ report.bull_case[2].body.len = 100
    /\ report.bull_case[1].suffix = "..."

\* C18: on one instance the narrative call starts at least
\* min_request_interval after the latest classification call, and its
\* _rate_limit sets the last_request_time of that same instance.
C18_NarrativeSpacedFromClassify ==
    \A i \in Instances :
        (/\ Len(calls[i].recent) = 2
         /\ calls[i].recent[1].kind = "classify"
         /\ calls[i].recent[2].kind = "narrative")
        => /\ calls[i].recent[2].at - calls[i].recent[1].at >= MinRequestInterval
           /\ last_request_time[i] = calls[i].recent[2].at

\* The calls the analyzer of perform_analysis has made for classification
NarrativeCalled == \E k \in 1..Len(calls[2].recent) : calls[2].recent[k].kind = "narrative"
ClassifyCalls == calls[2].n - (IF NarrativeCalled THEN 1 ELSE 0)
\* The classify invocations the loop has begun
Invocations == batch.i + (IF pc \in {"analyze_wait", "pa_collect"} THEN 1 ELSE 0)

\* C19: the loop classifies the articles one at a time in input order, each
\* once and with at most one service call; the list handed to
\* generate_final_report holds the judgments of the articles whose
\* classification succeeded, in the order of the articles.
C19_SequentialNoRetry ==
    /\ batch.i <= Len(batch.articles)
    /\ Len(batch.verdicts) = batch.i
    /\ ClassifyCalls <= Invocations
    /\ Invocations <= Len(batch.articles)
    /\ pc \in {"analyze_wait", "pa_collect"} => article = batch.articles[batch.i + 1]
    /\ \A k \in 1..Len(batch.verdicts) :
          batch.verdicts[k].kind = "result"
          => batch.verdicts[k].article_title = batch.articles[k].title
    /\ LET ok == {k \in 1..Len(batch.verdicts) : batch.verdicts[k].kind = "result"}
       IN  /\ Len(batch.sentiment_results) = Cardinality(ok)
           /\ \A j \in 1..Len(batch.sentiment_results) :
                 batch.sentiment_results[j] = batch.verdicts[Nth(ok, j)]
    /\ Len(calls[2].recent) = 2 => calls[2].recent[1].at <= calls[2].recent[2].at
    /\ (pc \in {"report_wait", "pa_return"} \/ NarrativeCalled)
       => /\ batch.i = Len(batch.articles)
          /\ judgments = batch.sentiment_results
    /\ (outcome # None /\ batch.articles # <<>>) => batch.i = Len(batch.articles)

\* C19 witness: the first article failed, the second succeeded, and the list
\* handed over holds the judgment of the second article only
C19_SecondArticleOnly ==
    /\ outcome # None
    /\ outcome.report # None
    /\ Len(batch.articles) = 2
    /\ batch.articles[1].title # batch.articles[2].title
    /\ batch.verdicts[1] = None
    /\ Len(judgments) = 1
    /\ judgments[1].article_title = batch.articles[2].title
    /\ ClassifyCalls = 2

\* The latest classification of the caller's analyzer had the article and
\* the answer of the service that an earlier one had
SameArticleSameReply ==
    /\ pc = "idle"
    /\ article # None
    /\ answer # None
    /\ previous # None
    /\ previous.article = article
    /\ previous.answer = answer

C21_ConfidenceInUnitInterval ==
    (pc = "parsed" /\ result.kind = "result") =>
        /\ result.confidence.kind = "num"
        /\ result.confidence.tenths \in 0..10
        /\ result.confidence = IF reply.obj.confidence = [kind |-> "missing"]
                               THEN [kind |-> "num", tenths |-> 8]
                               ELSE reply.obj.confidence

\* C21, the part that holds: the confidence of a judgment is the value the
\* reply gives, whatever it is, or 0.8 when the reply has no confidence field.
C21_ConfidenceAsGiven ==
    (pc = "parsed" /\ result.kind = "result") =>
        result.confidence = IF reply.obj.confidence = [kind |-> "missing"]
                            THEN [kind |-> "num", tenths |-> 8]
                            ELSE reply.obj.confidence

\* The narrative call succeeded: the service answered a text in which an
\* object is found and decoded, and the object holds both lists
NarrativeSucceeded ==
    /\ answer.kind = "text"
    /\ \/ answer.toks = <<"OBJ">>
       \/ answer.toks = <<"W", "FJ", "OBJ", "F">>
    /\ answer.obj.bull_case # [kind |-> "missing"]
    /\ answer.obj.bear_case # [kind |-> "missing"]

\* C22: when the narrative call succeeds with a reply that holds both lists,
\* bull_case and bear_case of the report are those lists as the service gave
\* them: the same entries in the same order, none cut, prefixed or replaced.
C22_ServiceListsVerbatim ==
    (pc = "done" /\ NarrativeSucceeded) =>
        /\ report.kind = "report"
        /\ report.bull_case = answer.obj.bull_case.items
        /\ report.bear_case = answer.obj.bear_case.items
        /\ \A k \in 1..Len(report.bull_case) :
              report.bull_case[k] = [kind |-> "svc", n |-> k]
        /\ \A k \in 1..Len(report.bear_case) :
              report.bear_case[k] = [kind |-> "svc", n |-> k]

\* C22 witness: the fenced reply held a bull list of more than five points
\* and an empty bear list, and the report holds them as they are
C22_LongAndEmptyKept ==
    /\ pc = "done"
    /\ NarrativeSucceeded
    /\ answer.toks = <<"W", "FJ", "OBJ", "F">>
    /\ judgments # <<>>
    /\ Len(answer.obj.bull_case.items) > 5
    /\ Len(report.bull_case) = Len(answer.obj.bull_case.items)
    /\ report.bear_case = <<>>

\* C23: in one run of perform_analysis no call to the service is made unless
\* a ticker was found and an article fetched; the narrative call is made once,
\* after every article of the run has been classified, only when there is a
\* judgment, and it is the last call; a run over n articles makes at most
\* n + 1 calls.
C23_CallsInOrder ==
    LET n == Len(batch.articles)
        recent == calls[2].recent
    IN  /\ calls[2].n > 0 => (batch.ticker = "found" /\ n >= 1)
        /\ calls[2].n <= n + 1
        /\ calls[2].n = n + 1 => NarrativeCalled
        /\ NarrativeCalled =>
            /\ recent[Len(recent)].kind = "narrative"
            /\ Len(recent) = 2 => recent[1].kind = "classify"
            /\ batch.i = n
            /\ Len(batch.verdicts) = n
            /\ batch.sentiment_results # <<>>
            /\ pc \in {"report_wait", "pa_return", "idle"}
        /\ pc = "analyze_wait" => ~NarrativeCalled
        /\ (outcome # None /\ outcome.report # None) => NarrativeCalled

\* C23 witness: a finished run over two articles made three calls, the
\* narrative call after the two classification calls
C23_TwoThenNarrative ==
    /\ outcome # None
    /\ Len(batch.articles) = 2
    /\ calls[2].n = 3
    /\ calls[2].recent[1].kind = "classify"
    /\ calls[2].recent[2].kind = "narrative"
    /\ calls[2].recent[1].at < calls[2].recent[2].at

\* C24: a step in which generate_final_report answers for an empty judgment
\* list makes no call to the service and leaves last_request_time as it was;
\* a step that makes the narrative call has a list that is not empty.
C24_EmptyListNoCall ==
    [][ /\ (pc = "idle" /\ judgments' = <<>> /\ report' # [kind |-> "none"])
           => /\ calls' = calls
              /\ last_request_time' = last_request_time
        /\ (/\ calls'[1].n > calls[1].n
            /\ calls'[1].recent[Len(calls'[1].recent)].kind = "narrative")
           => judgments' # <<>>
      ]_vars

\* C24 witness: the empty list was reported on by an analyzer that had made a
\* call less than min_request_interval before, and its limiter still holds
\* the time of that call
C24_EmptyListWhileLimited ==
    /\ pc = "idle"
    /\ judgments = <<>>
    /\ C3_IsEmptyReport(report)
    /\ calls[1].n >= 1
    /\ last_request_time[1] > 0
    /\ now - last_request_time[1] < 5

C26_FenceTakesPrecedence ==
    (pc = "parsed" /\ reply.kind = "text"
        /\ \E k \in 1..Len(reply.toks) : reply.toks[k] = "FJ") =>
        LET t == reply.toks
            n == Len(t)
            open == Min({k \in 1..n : t[k] = "FJ"})
            closes == {k \in (open + 1)..n : t[k] \in {"F", "FJ"}}
        IN  /\ parsed.kind \in {"none", "dict"}
            /\ closes = {} => parsed = [kind |-> "none"]
            /\ closes # {}
               => (parsed.kind = "dict"
                   <=> C8_Decodes(SubSeq(t, open + 1, Min(closes) - 1), reply.obj))

\* C26, the part that holds: with a closed fence the result depends on the
\* fenced text only, and with a fence that is never closed it is absent
\* unless the reply ends, whitespace aside, in exactly one character after
\* text that decodes.
C26_ClosedFenceTakesPrecedence ==
    (pc = "parsed" /\ reply.kind = "text"
        /\ \E k \in 1..Len(reply.toks) : reply.toks[k] = "FJ") =>
        LET t == reply.toks
            n == Len(t)
            open == Min({k \in 1..n : t[k] = "FJ"})
            closes == {k \in (open + 1)..n : t[k] \in {"F", "FJ"}}
            last == Max({k \in 1..n : t[k] # "SP"})
        IN  /\ parsed.kind \in {"none", "dict"}
            /\ closes = {}
               => (parsed.kind = "dict"
                   <=> /\ last > open
                       /\ t[last] \in {"LB", "RB", "W", "NUM"}
                       /\ C8_Decodes(SubSeq(t, open + 1, last - 1), reply.obj))
            /\ closes # {}
               => (parsed.kind = "dict"
                   <=> C8_Decodes(SubSeq(t, open + 1, Min(closes) - 1), reply.obj))

\* C26: the reply whose fence is never closed and that gave a judgment
C26_UnclosedFenceParsed ==
    /\ pc = "parsed"
    /\ reply.kind = "text"
    /\ reply.toks = <<"FJ", "OBJ", "W">>
    /\ parsed.kind = "dict"

\* C27: a new instance starts with last_request_time = 0; the first
\* _rate_limit of an instance does not sleep, whatever other instances have
\* called: it stamps the time at which it was entered; a step of one instance
\* leaves last_request_time of every other instance as it was.
C27_LimiterOwnedByInstance ==
    [][ \A i \in Instances :
          /\ (calls[i].n > 0 /\ calls'[i].n = 0) => last_request_time'[i] = 0
          /\ (last_request_time[i] = 0 /\ last_request_time'[i] # 0)
             => /\ last_request_time'[i] = now
                /\ self' = i
          /\ (calls[i].n = 0 /\ calls'[i].n = 1)
             => /\ last_request_time[i] = 0
                /\ last_request_time'[i] = now
          /\ \A j \in Instances :
                (j # i /\ (calls'[i].n > calls[i].n \/ (self' = i /\ pc' # pc)))
                => last_request_time'[j] = last_request_time[j]
      ]_vars

\* C27 witness: an analyzer made its first call less than
\* min_request_interval after a call of the other analyzer, whose
\* last_request_time still holds the time of that call
C27_FreshInstanceNotHeldBack ==
    /\ calls[1].n >= 1
    /\ calls[2].n = 1
    /\ last_request_time[1] > 0
    /\ last_request_time[2] >= last_request_time[1]
    /\ last_request_time[2] - last_request_time[1] < 5
    /\ calls[2].recent[1].at >= calls[1].recent[Len(calls[1].recent)].at
    /\ calls[2].recent[1].at - calls[1].recent[Len(calls[1].recent)].at < 5

====
